---- MODULE Spec2Model ----
(***************************************************************************)
(* Model of recommendation-service/src/circuitBreaker.js: one              *)
(* CircuitBreaker instance shared by concurrent execute() calls on the     *)
(* single-threaded event loop.  Every synchronous run-to-completion block  *)
(* of the class is one action: the entry of execute (time check,           *)
(* admission), the continuation after the awaited operation settled        *)
(* (_onSuccess / _onFailure), the timer callback of _withTimeout, the      *)
(* state getter, getMetrics and reset.                                     *)
(***************************************************************************)
EXTENDS Integers, Sequences, FiniteSets, Bags, TLC

\* ------------------------------------------------------------------------
\* Configuration (constructor options) and exploration bounds
\* ------------------------------------------------------------------------

\* options.windowSize
WindowSize == 4
\* options.consecutiveFailureThreshold
ConsecutiveFailureThreshold == 3
\* options.halfOpenMaxTrials
HalfOpenMaxTrials == 2
\* options.openStateDuration, in clock units
OpenStateDuration == 2
\* options.requestTimeout, in clock units; not smaller than openStateDuration,
\* so an operation admitted before a trip can still be pending, within its
\* deadline, when the breaker has become HALF_OPEN
RequestTimeout == 3
\* options.failureRateThreshold = 0.5 as the fraction Num / Den
FailureRateThresholdNum == 1
FailureRateThresholdDen == 2

\* largest clock value explored
MaxTime == 5
\* operations that may be pending at once (started and not yet settled)
MaxInFlight == 3
\* outcomes recorded since the last reset, plus calls in flight
MaxCalls == 6

\* recommendation requests received (app.js)
MaxRequests == 4

\* recommendation requests received during the user-profile outage
OutageRequests == 6

\* this._openedAt = null
Null == -1

CLOSED == "CLOSED"
OPEN == "OPEN"
HALF_OPEN == "HALF_OPEN"
States == {CLOSED, OPEN, HALF_OPEN}

VARIABLES
    cb,         \* the fields of the CircuitBreaker instance
    now,        \* Date.now()
    inflight,   \* bag of operations started by execute and not yet settled
    last,       \* the handler that ran last and what it returned
    failRun,    \* history: failures recorded in a row since a success or reset
    arrivals,   \* history: execute calls that arrived in the current HALF_OPEN period
    probes,     \* history: operations started in the current HALF_OPEN period
    retripAt,   \* history: time of the last HALF_OPEN failure, while within openStateDuration
    completed,  \* history: executes that ran to their end since the last reset
    breakers,   \* app.js: userProfileBreaker and contentBreaker, by name
    req,        \* app.js: the recommendation request being handled
    admin,      \* app.js: the metrics or reset handler being run
    served,     \* history: recommendation requests received
    plast       \* history: the last step of app.js and the breaker it called

vars ==
    <<cb, now, inflight, last, failRun, arrivals, probes, retripAt, completed>>

\* the state of app.js
pipeline == <<breakers, req, admin, served, plast>>

\* the state of the single breaker of Spec
single ==
    <<cb, inflight, last, failRun, arrivals, probes, retripAt, completed>>

Min(a, b) == IF a <= b THEN a ELSE b

\* ------------------------------------------------------------------------
\* CircuitBreaker
\* ------------------------------------------------------------------------

\* the options the breaker of Spec is constructed with
Options ==
    [requestTimeout |-> RequestTimeout,
     windowSize |-> WindowSize,
     failureRateThreshold |-> <<FailureRateThresholdNum, FailureRateThresholdDen>>,
     consecutiveFailureThreshold |-> ConsecutiveFailureThreshold,
     openStateDuration |-> OpenStateDuration,
     halfOpenMaxTrials |-> HalfOpenMaxTrials]

NewBreaker(options) ==
    [requestTimeout |-> options.requestTimeout,
     windowSize |-> options.windowSize,
     failureRateThreshold |-> options.failureRateThreshold,
     consecutiveFailureThreshold |-> options.consecutiveFailureThreshold,
     openStateDuration |-> options.openStateDuration,
     halfOpenMaxTrials |-> options.halfOpenMaxTrials,
     state |-> CLOSED,
     window |-> <<>>,
     consecutiveFailures |-> 0,
     openedAt |-> Null,
     halfOpenTrials |-> 0,
     halfOpenSuccesses |-> 0,
     totalSuccess |-> 0,
     totalFailure |-> 0]

\* variant: entering HALF_OPEN forgets to clear _openedAt
TransitionKeepsOpenedAt(b, newState, t) ==
    IF newState = OPEN THEN
        [b EXCEPT !.state = OPEN, !.openedAt = t,
                  !.halfOpenTrials = 0, !.halfOpenSuccesses = 0]
    ELSE IF newState = HALF_OPEN THEN
        [b EXCEPT !.state = HALF_OPEN,
                  !.halfOpenTrials = 0, !.halfOpenSuccesses = 0]
    ELSE
        [b EXCEPT !.state = CLOSED, !.openedAt = Null,
                  !.halfOpenTrials = 0, !.halfOpenSuccesses = 0,
                  !.consecutiveFailures = 0, !.window = <<>>]

\* variant: entering CLOSED also clears the lifetime totals
TransitionClearsTotals(b, newState, t) ==
    IF newState = OPEN THEN
        [b EXCEPT !.state = OPEN, !.openedAt = t,
                  !.halfOpenTrials = 0, !.halfOpenSuccesses = 0]
    ELSE IF newState = HALF_OPEN THEN
        [b EXCEPT !.state = HALF_OPEN, !.openedAt = Null,
                  !.halfOpenTrials = 0, !.halfOpenSuccesses = 0]
    ELSE
        [b EXCEPT !.state = CLOSED, !.openedAt = Null,
                  !.halfOpenTrials = 0, !.halfOpenSuccesses = 0,
                  !.consecutiveFailures = 0, !.window = <<>>,
                  !.totalSuccess = 0, !.totalFailure = 0]

\* variant: entering CLOSED leaves the run of consecutive failures as it is
TransitionKeepsFailures(b, newState, t) ==
    IF newState = OPEN THEN
        [b EXCEPT !.state = OPEN, !.openedAt = t,
                  !.halfOpenTrials = 0, !.halfOpenSuccesses = 0]
    ELSE IF newState = HALF_OPEN THEN
        [b EXCEPT !.state = HALF_OPEN, !.openedAt = Null,
                  !.halfOpenTrials = 0, !.halfOpenSuccesses = 0]
    ELSE
        [b EXCEPT !.state = CLOSED, !.openedAt = Null,
                  !.halfOpenTrials = 0, !.halfOpenSuccesses = 0,
                  !.window = <<>>]

Transition(b, newState, t) ==
    IF newState = OPEN THEN
        [b EXCEPT !.state = OPEN, !.openedAt = t,
                  !.halfOpenTrials = 0, !.halfOpenSuccesses = 0]
    ELSE IF newState = HALF_OPEN THEN
        [b EXCEPT !.state = HALF_OPEN, !.openedAt = Null,
                  !.halfOpenTrials = 0, !.halfOpenSuccesses = 0]
    ELSE
        [b EXCEPT !.state = CLOSED, !.openedAt = Null,
                  !.halfOpenTrials = 0, !.halfOpenSuccesses = 0,
                  !.consecutiveFailures = 0, !.window = <<>>]

\* variant: elapsed > openStateDuration instead of >=
MaybeTransitionFromOpenStrict(b, t) ==
    IF b.state = OPEN /\ b.openedAt # Null /\ t - b.openedAt > b.openStateDuration
    THEN Transition(b, HALF_OPEN, t)
    ELSE b

\* variant: elapsed taken as openedAt - now
MaybeTransitionFromOpenBackwards(b, t) ==
    IF b.state = OPEN /\ b.openedAt # Null /\ b.openedAt - t >= b.openStateDuration
    THEN Transition(b, HALF_OPEN, t)
    ELSE b

MaybeTransitionFromOpen(b, t) ==
    IF b.state = OPEN /\ b.openedAt # Null /\ t - b.openedAt >= b.openStateDuration
    THEN Transition(b, HALF_OPEN, t)
    ELSE b

\* variant: pop() instead of shift() drops the entry just pushed
RecordResultPops(b, success) ==
    LET pushed == Append(b.window, success)
    IN IF Len(pushed) > b.windowSize
       THEN SubSeq(pushed, 1, b.windowSize)
       ELSE pushed

\* the window of b after _recordResult(success)
RecordResult(b, success) ==
    LET pushed == Append(b.window, success)
    IN IF Len(pushed) > b.windowSize THEN Tail(pushed) ELSE pushed

Failures(w) == Cardinality({i \in 1..Len(w) : ~w[i]})

\* the failure rate as the fraction <<failures, length>>; 0 for an empty window
GetFailureRate(w) ==
    IF Len(w) = 0 THEN <<0, 1>> ELSE <<Failures(w), Len(w)>>

\* variant: > instead of >=
ConsecutiveTrippedStrict(b) ==
    b.consecutiveFailures > b.consecutiveFailureThreshold

ConsecutiveTripped(b) ==
    b.consecutiveFailures >= b.consecutiveFailureThreshold

\* variant: failureRate > threshold instead of >=
RateTrippedStrict(b) ==
    LET failureRate == GetFailureRate(b.window)
    IN /\ Len(b.window) >= b.windowSize
       /\ failureRate[1] * b.failureRateThreshold[2]
            > b.failureRateThreshold[1] * failureRate[2]

RateTripped(b) ==
    LET failureRate == GetFailureRate(b.window)
    IN /\ Len(b.window) >= b.windowSize
       /\ failureRate[1] * b.failureRateThreshold[2]
            >= b.failureRateThreshold[1] * failureRate[2]

\* variant: the first half-open success closes the breaker
OnSuccessClosesEarly(b, t) ==
    LET b1 == [b EXCEPT !.totalSuccess = @ + 1,
                        !.consecutiveFailures = 0,
                        !.window = RecordResult(b, TRUE)]
    IN IF b1.state = HALF_OPEN
       THEN Transition([b1 EXCEPT !.halfOpenSuccesses = @ + 1], CLOSED, t)
       ELSE b1

\* variant: a success leaves the run of consecutive failures as it is
OnSuccessKeepsFailures(b, t) ==
    LET b1 == [b EXCEPT !.totalSuccess = @ + 1,
                        !.window = RecordResult(b, TRUE)]
    IN IF b1.state = HALF_OPEN THEN
           LET b2 == [b1 EXCEPT !.halfOpenSuccesses = @ + 1]
           IN IF b2.halfOpenSuccesses >= b2.halfOpenMaxTrials
              THEN Transition(b2, CLOSED, t)
              ELSE b2
       ELSE b1

\* variant: a success counts towards closing in OPEN as in HALF_OPEN
OnSuccessCountsInOpen(b, t) ==
    LET b1 == [b EXCEPT !.totalSuccess = @ + 1,
                        !.consecutiveFailures = 0,
                        !.window = RecordResult(b, TRUE)]
    IN IF b1.state # CLOSED THEN
           LET b2 == [b1 EXCEPT !.halfOpenSuccesses = @ + 1]
           IN IF b2.halfOpenSuccesses >= b2.halfOpenMaxTrials
              THEN Transition(b2, CLOSED, t)
              ELSE b2
       ELSE b1

OnSuccess(b, t) ==
    LET b1 == [b EXCEPT !.totalSuccess = @ + 1,
                        !.consecutiveFailures = 0,
                        !.window = RecordResult(b, TRUE)]
    IN IF b1.state = HALF_OPEN THEN
           LET b2 == [b1 EXCEPT !.halfOpenSuccesses = @ + 1]
           IN IF b2.halfOpenSuccesses >= b2.halfOpenMaxTrials
              THEN Transition(b2, CLOSED, t)
              ELSE b2
       ELSE b1

\* variant: a half-open failure is counted but does not re-open
OnFailureStaysHalfOpen(b, t) ==
    LET b1 == [b EXCEPT !.totalFailure = @ + 1,
                        !.consecutiveFailures = @ + 1,
                        !.window = RecordResult(b, FALSE)]
    IN IF b1.state = CLOSED /\ (ConsecutiveTripped(b1) \/ RateTripped(b1))
       THEN Transition(b1, OPEN, t)
       ELSE b1

\* variant: a failure recorded in OPEN opens the breaker anew
OnFailureRestartsOpen(b, t) ==
    LET b1 == [b EXCEPT !.totalFailure = @ + 1,
                        !.consecutiveFailures = @ + 1,
                        !.window = RecordResult(b, FALSE)]
    IN IF b1.state = HALF_OPEN THEN Transition(b1, OPEN, t)
       ELSE IF b1.state = CLOSED THEN
           IF ConsecutiveTripped(b1) THEN Transition(b1, OPEN, t)
           ELSE IF RateTripped(b1) THEN Transition(b1, OPEN, t)
           ELSE b1
       ELSE Transition(b1, OPEN, t)

OnFailure(b, t) ==
    LET b1 == [b EXCEPT !.totalFailure = @ + 1,
                        !.consecutiveFailures = @ + 1,
                        !.window = RecordResult(b, FALSE)]
    IN IF b1.state = HALF_OPEN THEN Transition(b1, OPEN, t)
       ELSE IF b1.state = CLOSED THEN
           IF ConsecutiveTripped(b1) THEN Transition(b1, OPEN, t)
           ELSE IF RateTripped(b1) THEN Transition(b1, OPEN, t)
           ELSE b1
       ELSE b1

\* variant: > instead of >= in the half-open trial check
RejectsStrict(b) ==
    \/ b.state = OPEN
    \/ b.state = HALF_OPEN /\ b.halfOpenTrials > b.halfOpenMaxTrials

\* execute throws CircuitOpenError before the operation is started
Rejects(b) ==
    \/ b.state = OPEN
    \/ b.state = HALF_OPEN /\ b.halfOpenTrials >= b.halfOpenMaxTrials

\* variant: the trial is not counted at admission
AdmitUncounted(b) == b

\* the bookkeeping of an admitted execute before the operation is started
Admit(b) ==
    IF b.state = HALF_OPEN THEN [b EXCEPT !.halfOpenTrials = @ + 1] ELSE b

ResetBreaker(b, t) ==
    [Transition(b, CLOSED, t) EXCEPT !.totalSuccess = 0, !.totalFailure = 0]

\* Number.prototype.toFixed(1) of num / den: the nearest tenth, the larger
\* one when two are as near
ToFixed1(num, den) ==
    LET tenths == (20 * num + den) \div (2 * den)
    IN ToString(tenths \div 10) \o "." \o ToString(tenths % 10)

\* ((part / whole) * 100).toFixed(1) + '%', and '0.0%' of nothing
Percent(part, whole) ==
    IF whole > 0 THEN ToFixed1(100 * part, whole) \o "%" ELSE "0.0%"

\* variant: halfOpenTrials reports the trials started, not the successes
SnapshotOfTrials(b) ==
    [state |-> b.state,
     failureRate |-> Percent(b.totalFailure, b.totalSuccess + b.totalFailure),
     successfulCalls |-> b.totalSuccess,
     failedCalls |-> b.totalFailure,
     windowFailureRate |-> Percent(Failures(b.window), Len(b.window)),
     consecutiveFailures |-> b.consecutiveFailures,
     halfOpenTrials |->
        IF b.state = HALF_OPEN
        THEN ToString(b.halfOpenTrials) \o "/" \o ToString(b.halfOpenMaxTrials)
        ELSE "N/A"]

\* the object getMetrics returns for breaker b
Snapshot(b) ==
    [state |-> b.state,
     failureRate |-> Percent(b.totalFailure, b.totalSuccess + b.totalFailure),
     successfulCalls |-> b.totalSuccess,
     failedCalls |-> b.totalFailure,
     windowFailureRate |-> Percent(Failures(b.window), Len(b.window)),
     consecutiveFailures |-> b.consecutiveFailures,
     halfOpenTrials |->
        IF b.state = HALF_OPEN
        THEN ToString(b.halfOpenSuccesses) \o "/" \o ToString(b.halfOpenMaxTrials)
        ELSE "N/A"]

\* no snapshot was returned
NoSnapshot == [state |-> "none"]

\* ------------------------------------------------------------------------
\* app.js: breakers, constants, values
\* ------------------------------------------------------------------------

UserProfile == "user-profile-service"

Content == "content-service"

BreakerNames == {UserProfile, Content}

\* variant: the breakers of app.js trip on the sixth consecutive failure
AppOptionsSixth(name) ==
    [requestTimeout |-> 2000,
     windowSize |-> 10,
     failureRateThreshold |-> <<1, 2>>,
     consecutiveFailureThreshold |-> 6,
     openStateDuration |-> 30000,
     halfOpenMaxTrials |-> 3]

\* the options app.js constructs the breaker called name with
AppOptions(name) ==
    [requestTimeout |-> 2000,
     windowSize |-> 10,
     failureRateThreshold |-> <<1, 2>>,
     consecutiveFailureThreshold |-> 5,
     openStateDuration |-> 30000,
     halfOpenMaxTrials |-> 3]

DEFAULT_PREFERENCES == <<"Comedy", "Family">>

\* Array.prototype.join
RECURSIVE Join(_, _)
Join(list, sep) ==
    IF Len(list) = 0 THEN ""
    ELSE IF Len(list) = 1 THEN list[1]
    ELSE list[1] \o sep \o Join(Tail(list), sep)

\* ------------------------------------------------------------------------
\* app.js: values of a recommendation request
\* ------------------------------------------------------------------------

\* the instants at which the handlers of app.js read the clock: the start, a
\* requestTimeout later, and the same two an openStateDuration later
TimePoints(options) ==
    {0, options.requestTimeout, options.openStateDuration,
     options.requestTimeout + options.openStateDuration}

\* req.params.userId
UserIds == {"7"}

\* r.data of the user-profile upstream: with and without a preferences list
UserProfileBodies ==
    {[userId |-> "7", preferences |-> <<"Drama", "Action">>],
     [userId |-> "7"]}

\* r.data of the content upstream: with and without a movies list
ContentBodies == {[movies |-> <<"Heat">>], [total |-> 0]}

\* r.data of the trending upstream
TrendingBodies == {[trending |-> <<"Dune">>]}

\* null
NullValue == [null |-> TRUE]

\* the locals of the handler on entry; calls, genres and outcome1..3 are
\* the history of the request: calls started per upstream, the genres asked
\* of content, and how each step ended
NewRequest(userId) ==
    [pc |-> "step1",
     userId |-> userId,
     fallbacksTriggered |-> <<>>,
     userPreferences |-> NullValue,
     recommendations |-> NullValue,
     startedAt |-> Null,
     sent |-> <<>>,
     calls |-> [profile |-> 0, content |-> 0, trending |-> 0],
     genres |-> "",
     outcome1 |-> "none",
     outcome2 |-> "none",
     outcome3 |-> "none"]

NoRequest == [NewRequest("") EXCEPT !.pc = "idle"]

\* res.status(status).json(body)
Respond(r, status, body) ==
    [r EXCEPT !.sent = Append(@, [status |-> status, body |-> body]),
              !.pc = "done"]

\* Step 1, try block after the await
Step1Success(r, response) ==
    [r EXCEPT !.userPreferences =
                  IF "preferences" \in DOMAIN response
                  THEN [userId |-> response.userId,
                        preferences |-> response.preferences]
                  ELSE [userId |-> response.userId],
              !.outcome1 = "success",
              !.pc = "step2"]

\* variant: a failure of user-profile ends the request with an error
Step1FailureGivesUp(r, how) ==
    Respond([r EXCEPT !.outcome1 = how], 503,
        [error |-> "All services are currently unavailable. Please try again shortly.",
         fallback_triggered_for |-> UserProfile])

\* Step 1, catch block
Step1Failure(r, how) ==
    [r EXCEPT !.userPreferences =
                  [userId |-> r.userId, preferences |-> DEFAULT_PREFERENCES],
              !.fallbacksTriggered = Append(@, UserProfile),
              !.outcome1 = how,
              !.pc = "step2"]

\* variant: the combined response always has fallback_triggered_for
Step4AlwaysLists(r) ==
    Respond(r, 200,
        [userPreferences |-> r.userPreferences,
         recommendations |-> r.recommendations,
         fallback_triggered_for |-> Join(r.fallbacksTriggered, ", ")])

\* Step 4: the combined response
Step4(r) ==
    Respond(r, 200,
        IF Len(r.fallbacksTriggered) > 0
        THEN [userPreferences |-> r.userPreferences,
              recommendations |-> r.recommendations,
              fallback_triggered_for |-> Join(r.fallbacksTriggered, ", ")]
        ELSE [userPreferences |-> r.userPreferences,
              recommendations |-> r.recommendations])

\* variant: trending is the fallback only when both steps fell back
NeedsTrendingBoth(r) == Len(r.fallbacksTriggered) = 2

\* Step 3, its test
NeedsTrending(r) == r.recommendations = NullValue

\* Step 3 up to its await, and Step 4 when there is no await
Step3(r) ==
    IF NeedsTrending(r)
    THEN [r EXCEPT !.pc = "await3", !.calls.trending = @ + 1]
    ELSE Step4(r)

\* Step 2, try block after the await, and on
Step2Success(r, response) ==
    Step3([r EXCEPT !.recommendations =
                        [items |-> IF "movies" \in DOMAIN response
                                   THEN response.movies
                                   ELSE <<>>],
                    !.outcome2 = "success"])

\* Step 2, catch block, and on
Step2Failure(r, how) ==
    Step3([r EXCEPT !.fallbacksTriggered = Append(@, Content),
                    !.recommendations = NullValue,
                    !.outcome2 = how])

\* Step 3, try block after the await
Step3Success(r, trendingData) ==
    Respond([r EXCEPT !.outcome3 = "success"], 200,
        [message |-> "Our recommendation service is temporarily degraded. Here are some trending movies.",
         trending |-> trendingData.trending,
         fallback_triggered_for |-> Join(r.fallbacksTriggered, ", ")])

\* Step 3, catch block
Step3Failure(r) ==
    Respond([r EXCEPT !.outcome3 = "failure"], 503,
        [error |-> "All services are currently unavailable. Please try again shortly.",
         fallback_triggered_for |-> Join(r.fallbacksTriggered, ", ")])

\* ------------------------------------------------------------------------
\* Operations in flight
\* ------------------------------------------------------------------------

\* how a promise settles: fulfilled with a value, or rejected with an error
Returns(v) == [kind |-> "returns", value |-> v]

Throws(e) == [kind |-> "throws", value |-> e]

\* a promise that has not settled
Nothing == [kind |-> "pending", value |-> "none"]

\* the values an operation may resolve with
Values == {"body1", "body2"}

\* the errors an operation may reject with
Errors == {"upstream_error", "transport_error"}

\* the error of the timer of _withTimeout (isTimeout = true)
Timeout == "timeout"

\* the error of a rejected execute
CircuitOpenError == "CircuitOpenError"

\* an operation started by execute: when it started, whether its promise is
\* still pending ("running") or the timer already rejected it ("late"), and
\* (history) whether it was admitted in the HALF_OPEN period that is current
Call(t, p) == [startedAt |-> t, pc |-> "running", probe |-> p, old |-> FALSE]

\* the operation of an execute that timed out: still pending, and nothing of
\* it matters any more but that it may settle
Late == [startedAt |-> Null, pc |-> "late", probe |-> FALSE, old |-> FALSE]

One(c) == SetToBag({c})

Calls == BagToSet(inflight)

\* the operations of B whose promise is still pending
Running(B) == [c \in {x \in DOMAIN B : x.pc = "running"} |-> B[c]]

\* the pending operations of B admitted in the current half-open period
RunningProbes(B) ==
    [c \in {x \in DOMAIN B : x.pc = "running" /\ x.probe} |-> B[c]]

Size(B) == BagCardinality(B)

Unprobe(c) == [c EXCEPT !.probe = FALSE]

\* a half-open period ended: no operation in flight belongs to the current one
ClearProbes(B) ==
    [d \in {Unprobe(c) : c \in DOMAIN B} |->
        CopiesIn(d, B) + CopiesIn([d EXCEPT !.probe = TRUE], B)]

Old(c) == [c EXCEPT !.old = TRUE]

\* reset() was called: every operation in flight was admitted before it
MarkOld(B) ==
    [d \in {Old(c) : c \in DOMAIN B} |->
        CopiesIn(d, B) + CopiesIn([d EXCEPT !.old = FALSE], B)]

\* ------------------------------------------------------------------------
\* Handlers
\* ------------------------------------------------------------------------

Init ==
    /\ cb = NewBreaker(Options)
    /\ now = 0
    /\ inflight = EmptyBag
    /\ last = [op |-> "new", res |-> CLOSED, from |-> CLOSED, wlen |-> 0,
               old |-> FALSE, val |-> Nothing, ret |-> Nothing,
               snap |-> NoSnapshot]
    /\ failRun = 0
    /\ arrivals = 0
    /\ probes = 0
    /\ retripAt = Null
    /\ completed = 0
    /\ breakers = [name \in BreakerNames |-> NewBreaker(Options)]
    /\ req = NoRequest
    /\ admin = "idle"
    /\ served = 0
    /\ plast = [op |-> "new", breaker |-> "none"]

\* what a handler leaves in last: its name, its result, and the state and
\* window length it found; for a handler that resumes execute, whether the
\* operation was admitted before the last reset (old), how the operation
\* settled (val) and how execute settles (ret); for getMetrics, the snapshot
Ran(op, res) ==
    [op |-> op, res |-> res, from |-> cb.state, wlen |-> Len(cb.window),
     old |-> FALSE, val |-> Nothing, ret |-> Nothing, snap |-> NoSnapshot]

\* execute resumed for operation c, which settled as val, and settles as ret
Resumed(op, res, c, val, ret) ==
    [Ran(op, res) EXCEPT !.old = c.old, !.val = val, !.ret = ret]

\* history kept by every handler that records an outcome: b is the breaker
\* after the handler, rest the operations still in flight
Recorded(b, rest, how) ==
    /\ cb' = b
    /\ inflight' = IF b.state # cb.state THEN ClearProbes(rest) ELSE rest
    /\ last' = how
    /\ completed' = completed + 1
    /\ failRun' = IF how.res = "success" THEN 0 ELSE failRun + 1
    /\ arrivals' = IF b.state = HALF_OPEN THEN arrivals ELSE 0
    /\ probes' = IF b.state = HALF_OPEN THEN probes ELSE 0
    /\ retripAt' = IF how.res = "failure" /\ cb.state = HALF_OPEN
                   THEN now ELSE retripAt
    /\ UNCHANGED <<now, pipeline>>

\* execute(fn) up to its await: time check, admission, start of the operation
Execute ==
    LET b1 == MaybeTransitionFromOpen(cb, now)
        seen == IF b1.state # HALF_OPEN THEN 0
                ELSE Min(arrivals + 1, HalfOpenMaxTrials + 1)
    IN /\ IF Rejects(b1)
          THEN /\ cb' = b1
               /\ inflight' = inflight
               /\ last' = [Ran("execute", "rejected")
                             EXCEPT !.ret = Throws(CircuitOpenError)]
               /\ probes' = probes
          ELSE /\ Size(inflight) < MaxInFlight
               /\ b1.totalSuccess + b1.totalFailure
                     + Size(Running(inflight)) < MaxCalls
               /\ cb' = Admit(b1)
               /\ inflight' = inflight (+) One(Call(now, b1.state = HALF_OPEN))
               /\ last' = Ran("execute", "admitted")
               /\ probes' = IF b1.state = HALF_OPEN THEN probes + 1 ELSE 0
       /\ arrivals' = seen
       /\ UNCHANGED <<now, failRun, retripAt, completed, pipeline>>

\* the operation resolved before the timer: execute resumes in its try block
FnResolves ==
    \E c \in Calls, v \in Values :
        /\ c.pc = "running"
        /\ Recorded(OnSuccess(cb, now), inflight (-) One(c),
                    Resumed("onSuccess", "success", c, Returns(v), Returns(v)))

\* the operation rejected before the timer: execute resumes in its catch block
FnRejects ==
    \E c \in Calls, e \in Errors :
        /\ c.pc = "running"
        /\ Recorded(OnFailure(cb, now), inflight (-) One(c),
                    Resumed("onFailure", "failure", c, Throws(e), Throws(e)))

\* the timer of _withTimeout fired first: execute resumes in its catch block
\* while the operation itself is still pending.  setTimeout bounds the delay
\* from below only, so the timer may fire at any time from its deadline on.
TimerFires ==
    \E c \in Calls :
        /\ c.pc = "running"
        /\ now - c.startedAt >= cb.requestTimeout
        /\ Recorded(OnFailure(cb, now),
                    (inflight (-) One(c)) (+) One(Late),
                    Resumed("onTimeout", "failure", c, Nothing, Throws(Timeout)))

\* variant: the settlement of a timed-out operation reaches the breaker
LateSettlesRecords ==
    \E c \in Calls :
        /\ c.pc = "late"
        /\ cb' = OnSuccess(cb, now)
        /\ inflight' = inflight (-) One(c)
        /\ last' = Ran("late", "discarded")
        /\ UNCHANGED <<now, failRun, arrivals, probes, retripAt, completed,
                       pipeline>>

\* the operation settled after the timer: resolve/reject of the settled
\* promise is ignored
LateSettles ==
    \E c \in Calls :
        /\ c.pc = "late"
        /\ inflight' = inflight (-) One(c)
        /\ last' = Ran("late", "discarded")
        /\ UNCHANGED <<cb, now, failRun, arrivals, probes, retripAt, completed,
                       pipeline>>

\* get state()
GetState ==
    /\ cb' = MaybeTransitionFromOpen(cb, now)
    /\ last' = Ran("state", cb'.state)
    /\ UNCHANGED <<now, inflight, failRun, arrivals, probes, retripAt, completed,
                   pipeline>>

\* getMetrics()
GetMetrics ==
    /\ cb' = MaybeTransitionFromOpen(cb, now)
    /\ last' = [Ran("getMetrics", cb'.state) EXCEPT !.snap = Snapshot(cb')]
    /\ UNCHANGED <<now, inflight, failRun, arrivals, probes, retripAt, completed,
                   pipeline>>

\* reset(), leaving rest as the operations in flight
ResetLeaving(rest) ==
    /\ cb' = ResetBreaker(cb, now)
    /\ inflight' = rest
    /\ last' = Ran("reset", CLOSED)
    /\ completed' = 0
    /\ failRun' = 0
    /\ arrivals' = 0
    /\ probes' = 0
    /\ retripAt' = Null
    /\ UNCHANGED <<now, pipeline>>

\* reset()
Reset == ResetLeaving(ClearProbes(inflight))

\* reset(), with the history of which operations in flight it found
ResetMarking == ResetLeaving(MarkOld(ClearProbes(inflight)))

\* the clock advances
Tick ==
    /\ now < MaxTime
    /\ now' = now + 1
    /\ retripAt' = IF retripAt # Null /\ now' - retripAt >= OpenStateDuration
                   THEN Null ELSE retripAt
    /\ last' = Ran("tick", "none")
    /\ UNCHANGED <<cb, inflight, failRun, arrivals, probes, completed, pipeline>>

Next ==
    \/ Execute
    \/ FnResolves
    \/ FnRejects
    \/ TimerFires
    \/ LateSettles
    \/ GetState
    \/ GetMetrics
    \/ Reset
    \/ Tick

Spec == Init /\ [][Next]_vars

\* an operation in flight completes or is cut by the timer
Settles == FnResolves \/ FnRejects \/ TimerFires

\* a caller runs the time-driven check: execute or getMetrics
ChecksOpen == Execute \/ GetMetrics

\* the handlers of Spec where the clock advances, every operation started
\* settles or times out, and execute or getMetrics keeps being called
BreakerLive ==
    /\ Spec
    /\ WF_vars(Tick)
    /\ WF_vars(Settles)
    /\ WF_vars(ChecksOpen)

\* the same handlers, with the history of reset kept in the operations in flight
NextMarking ==
    \/ Execute
    \/ FnResolves
    \/ FnRejects
    \/ TimerFires
    \/ LateSettles
    \/ GetState
    \/ GetMetrics
    \/ ResetMarking
    \/ Tick

ResetSpec == Init /\ [][NextMarking]_vars

\* ------------------------------------------------------------------------
\* app.js: handlers
\*
\* A handler runs to its next await without interruption.  Where a handler
\* calls two breakers in one run, each call is a step of its own and nothing
\* else runs in between (Busy).  Requests are handled one after the other;
\* metrics and reset may arrive while a request awaits an upstream.
\* ------------------------------------------------------------------------

pvars == <<pipeline, now>>

\* variant: the window is shared by the instances
PutShared(bs, name, b) ==
    [n \in BreakerNames |->
        IF n = name THEN b ELSE [bs[n] EXCEPT !.window = b.window]]

\* a method of the instance called name ran and left it as b
Put(bs, name, b) == [bs EXCEPT ![name] = b]

Did(op, name) == [op |-> op, breaker |-> name]

\* a handler is between two calls of one run
Busy == req.pc = "step2" \/ admin # "idle"

\* the operation passed to execute is pending since before the timer
Awaits(pc) == ~Busy /\ req.pc = pc

\* GET /recommendations/:userId up to the first await:
\* userProfileBreaker.execute rejects or starts the call
Recommendations ==
    \E userId \in UserIds :
        LET r == NewRequest(userId)
            b1 == MaybeTransitionFromOpen(breakers[UserProfile], now)
        IN /\ ~Busy
           /\ req.pc \in {"idle", "done"}
           /\ served' = served + 1
           /\ IF Rejects(b1)
              THEN /\ breakers' = Put(breakers, UserProfile, b1)
                   /\ req' = Step1Failure(r, "rejected")
              ELSE /\ breakers' = Put(breakers, UserProfile, Admit(b1))
                   /\ req' = [r EXCEPT !.pc = "await1", !.startedAt = now,
                                       !.calls.profile = @ + 1]
           /\ plast' = Did("execute", UserProfile)
           /\ UNCHANGED <<admin, now, single>>

\* the user-profile call resolved with response: _onSuccess, then Step 1
UserProfileResolves ==
    \E response \in UserProfileBodies :
        /\ Awaits("await1")
        /\ breakers' = Put(breakers, UserProfile,
                           OnSuccess(breakers[UserProfile], now))
        /\ req' = Step1Success(req, response)
        /\ plast' = Did("onSuccess", UserProfile)
        /\ UNCHANGED <<admin, served, now, single>>

\* the user-profile call rejected: _onFailure, then the catch of Step 1
UserProfileRejects ==
    /\ Awaits("await1")
    /\ breakers' = Put(breakers, UserProfile,
                       OnFailure(breakers[UserProfile], now))
    /\ req' = Step1Failure(req, "failure")
    /\ plast' = Did("onFailure", UserProfile)
    /\ UNCHANGED <<admin, served, now, single>>

\* the timer of userProfileBreaker fired first
UserProfileTimerFires ==
    /\ Awaits("await1")
    /\ now - req.startedAt >= breakers[UserProfile].requestTimeout
    /\ breakers' = Put(breakers, UserProfile,
                       OnFailure(breakers[UserProfile], now))
    /\ req' = Step1Failure(req, "timeout")
    /\ plast' = Did("onTimeout", UserProfile)
    /\ UNCHANGED <<admin, served, now, single>>

\* Step 2 up to its await: join throws on a missing list, or
\* contentBreaker.execute rejects or starts the call
FetchContent ==
    /\ req.pc = "step2"
    /\ admin = "idle"
    /\ IF "preferences" \notin DOMAIN req.userPreferences
       THEN /\ req' = Step2Failure(req, "type_error")
            /\ plast' = Did("join", "none")
            /\ UNCHANGED breakers
       ELSE LET genres == Join(req.userPreferences.preferences, ",")
                b1 == MaybeTransitionFromOpen(breakers[Content], now)
            IN /\ IF Rejects(b1)
                  THEN /\ breakers' = Put(breakers, Content, b1)
                       /\ req' = Step2Failure(req, "rejected")
                  ELSE /\ breakers' = Put(breakers, Content, Admit(b1))
                       /\ req' = [req EXCEPT !.pc = "await2",
                                             !.startedAt = now,
                                             !.genres = genres,
                                             !.calls.content = @ + 1]
               /\ plast' = Did("execute", Content)
    /\ UNCHANGED <<admin, served, now, single>>

\* the content call resolved with response: _onSuccess, then Steps 2 to 4
ContentResolves ==
    \E response \in ContentBodies :
        /\ Awaits("await2")
        /\ breakers' = Put(breakers, Content, OnSuccess(breakers[Content], now))
        /\ req' = Step2Success(req, response)
        /\ plast' = Did("onSuccess", Content)
        /\ UNCHANGED <<admin, served, now, single>>

\* the content call rejected: _onFailure, then the catch of Step 2 and Step 3
ContentRejects ==
    /\ Awaits("await2")
    /\ breakers' = Put(breakers, Content, OnFailure(breakers[Content], now))
    /\ req' = Step2Failure(req, "failure")
    /\ plast' = Did("onFailure", Content)
    /\ UNCHANGED <<admin, served, now, single>>

\* the timer of contentBreaker fired first
ContentTimerFires ==
    /\ Awaits("await2")
    /\ now - req.startedAt >= breakers[Content].requestTimeout
    /\ breakers' = Put(breakers, Content, OnFailure(breakers[Content], now))
    /\ req' = Step2Failure(req, "timeout")
    /\ plast' = Did("onTimeout", Content)
    /\ UNCHANGED <<admin, served, now, single>>

\* the trending call resolved
TrendingResolves ==
    \E trendingData \in TrendingBodies :
        /\ Awaits("await3")
        /\ req' = Step3Success(req, trendingData)
        /\ plast' = Did("trending", "none")
        /\ UNCHANGED <<breakers, admin, served, now, single>>

\* the trending call rejected (error status, transport error, 5 s timeout)
TrendingRejects ==
    /\ Awaits("await3")
    /\ req' = Step3Failure(req)
    /\ plast' = Did("trending", "none")
    /\ UNCHANGED <<breakers, admin, served, now, single>>

\* GET /metrics/circuit-breakers: userProfileBreaker.getMetrics()
MetricsUserProfile ==
    /\ ~Busy
    /\ breakers' = Put(breakers, UserProfile,
                       MaybeTransitionFromOpen(breakers[UserProfile], now))
    /\ admin' = "metrics"
    /\ plast' = Did("getMetrics", UserProfile)
    /\ UNCHANGED <<req, served, now, single>>

\* GET /metrics/circuit-breakers: contentBreaker.getMetrics()
MetricsContent ==
    /\ admin = "metrics"
    /\ breakers' = Put(breakers, Content,
                       MaybeTransitionFromOpen(breakers[Content], now))
    /\ admin' = "idle"
    /\ plast' = Did("getMetrics", Content)
    /\ UNCHANGED <<req, served, now, single>>

\* POST /admin/reset-circuit-breakers: userProfileBreaker.reset()
ResetUserProfile ==
    /\ ~Busy
    /\ breakers' = Put(breakers, UserProfile,
                       ResetBreaker(breakers[UserProfile], now))
    /\ admin' = "reset"
    /\ plast' = Did("reset", UserProfile)
    /\ UNCHANGED <<req, served, now, single>>

\* POST /admin/reset-circuit-breakers: contentBreaker.reset()
ResetContent ==
    /\ admin = "reset"
    /\ breakers' = Put(breakers, Content, ResetBreaker(breakers[Content], now))
    /\ admin' = "idle"
    /\ plast' = Did("reset", Content)
    /\ UNCHANGED <<req, served, now, single>>

\* the clock advances to a later instant
PipelineTick ==
    \E t \in TimePoints(breakers[UserProfile]) :
        /\ ~Busy
        /\ t > now
        /\ now' = t
        /\ plast' = Did("tick", "none")
        /\ UNCHANGED <<breakers, req, admin, served, single>>

PipelineNext ==
    \/ served < MaxRequests /\ Recommendations
    \/ UserProfileResolves
    \/ UserProfileRejects
    \/ UserProfileTimerFires
    \/ FetchContent
    \/ ContentResolves
    \/ ContentRejects
    \/ ContentTimerFires
    \/ TrendingResolves
    \/ TrendingRejects
    \/ MetricsUserProfile
    \/ MetricsContent
    \/ ResetUserProfile
    \/ ResetContent
    \/ PipelineTick

PipelineSpec == Init /\ [][PipelineNext]_pvars

\* the call awaited in Step 1 settles or its timer fires
Settles1 == UserProfileResolves \/ UserProfileRejects \/ UserProfileTimerFires

\* the call awaited in Step 2 settles or its timer fires
Settles2 == ContentResolves \/ ContentRejects \/ ContentTimerFires

\* the trending call settles, by its 5 s timeout at the latest
Settles3 == TrendingResolves \/ TrendingRejects

\* the event loop runs every callback that is ready: a handler between two
\* calls goes on, and an awaited promise that can settle does, however many
\* other handlers run in between
PipelineLive ==
    /\ PipelineSpec
    /\ WF_pvars(FetchContent)
    /\ WF_pvars(MetricsContent)
    /\ WF_pvars(ResetContent)
    /\ SF_pvars(Settles1)
    /\ SF_pvars(Settles2)
    /\ SF_pvars(Settles3)

\* app.js as it constructs its breakers, while the user-profile upstream is
\* down and the content upstream is healthy
OutageInit ==
    /\ breakers = [name \in BreakerNames |-> NewBreaker(AppOptions(name))]
    /\ now = 0
    /\ req = NoRequest
    /\ admin = "idle"
    /\ served = 0
    /\ plast = [op |-> "new", breaker |-> "none"]
    /\ cb = NewBreaker(Options)
    /\ inflight = EmptyBag
    /\ last = [op |-> "new", res |-> CLOSED, from |-> CLOSED, wlen |-> 0,
               old |-> FALSE, val |-> Nothing, ret |-> Nothing,
               snap |-> NoSnapshot]
    /\ failRun = 0
    /\ arrivals = 0
    /\ probes = 0
    /\ retripAt = Null
    /\ completed = 0

OutageNext ==
    \/ served < OutageRequests /\ Recommendations
    \/ UserProfileRejects
    \/ UserProfileTimerFires
    \/ FetchContent
    \/ ContentResolves
    \/ MetricsUserProfile
    \/ MetricsContent
    \/ PipelineTick

OutageSpec == OutageInit /\ [][OutageNext]_pvars

\* ------------------------------------------------------------------------
\* Properties
\* ------------------------------------------------------------------------

\* the handler of this step recorded a failure (operation error or timeout)
RecordsFailure == last'.res = "failure"

\* the handler of this step recorded a success
RecordsSuccess == last'.res = "success"

\* the handler of this step was an execute entry
Executes == last'.op = "execute"

FailuresIn(w) == Cardinality({i \in 1..Len(w) : w[i] = FALSE})

\* C1: once consecutiveFailureThreshold failures in a row have been recorded
\* (no success, no reset between them) the state is OPEN right after the
\* last of them is recorded, whatever the window holds.
ConsecutiveFailuresOpen ==
    [][(RecordsFailure /\ failRun' >= ConsecutiveFailureThreshold)
         => cb'.state = OPEN]_vars

\* C1 witness: the threshold-th failure in a row opened a CLOSED breaker
\* whose window is not full.
ConsecutiveTripWitness ==
    /\ last.res = "failure"
    /\ last.from = CLOSED
    /\ failRun = ConsecutiveFailureThreshold
    /\ cb.state = OPEN
    /\ Len(cb.window) < WindowSize

\* C2: a failure recorded in CLOSED below the consecutive threshold opens
\* the breaker iff the window, with the failure appended, holds windowSize
\* entries of which the failed fraction is >= failureRateThreshold.
RateTripIffFullWindow ==
    [][(RecordsFailure /\ cb.state = CLOSED
          /\ cb.consecutiveFailures + 1 < ConsecutiveFailureThreshold)
         => (cb'.state = OPEN <=>
               /\ Len(cb'.window) = WindowSize
               /\ FailuresIn(cb'.window) * FailureRateThresholdDen
                    >= FailureRateThresholdNum * Len(cb'.window))]_vars

\* C2 witness: a rate trip exactly at the threshold, below the consecutive
\* threshold.
RateTripWitness ==
    /\ last.res = "failure"
    /\ last.from = CLOSED
    /\ cb.state = OPEN
    /\ cb.consecutiveFailures < ConsecutiveFailureThreshold
    /\ Len(cb.window) = WindowSize
    /\ FailuresIn(cb.window) * FailureRateThresholdDen
         = FailureRateThresholdNum * Len(cb.window)

\* C3: an execute that finds the breaker OPEN before openStateDuration has
\* elapsed, or HALF_OPEN with all trials allocated, is rejected, starts no
\* operation and changes no field of the breaker.
RejectedExecuteChangesNothing ==
    [][Executes =>
         /\ (\/ cb.state = OPEN /\ now - cb.openedAt < OpenStateDuration
             \/ cb.state = HALF_OPEN /\ cb.halfOpenTrials >= HalfOpenMaxTrials)
              => last'.res = "rejected"
         /\ last'.res = "rejected" => cb' = cb /\ inflight' = inflight]_vars

\* C3 witness: an execute was rejected in OPEN after outcomes were recorded.
RejectedInOpenWitness ==
    /\ last.op = "execute"
    /\ last.res = "rejected"
    /\ cb.state = OPEN
    /\ now > cb.openedAt
    /\ cb.totalFailure > 0

\* C4: in OPEN, an execute, getMetrics or state read before
\* openStateDuration has elapsed leaves the breaker OPEN; one at or after it
\* finds HALF_OPEN: the snapshot or state read says HALF_OPEN and the
\* execute is admitted as the first trial.
OpenUntilDurationElapsed ==
    [][(last'.op \in {"execute", "getMetrics", "state"} /\ cb.state = OPEN) =>
         IF now - cb.openedAt < OpenStateDuration
         THEN /\ cb'.state = OPEN
              /\ cb'.openedAt = cb.openedAt
              /\ last'.res = IF Executes THEN "rejected" ELSE OPEN
         ELSE /\ cb'.state = HALF_OPEN
              /\ last'.res = IF Executes THEN "admitted" ELSE HALF_OPEN
              /\ cb'.halfOpenTrials = IF Executes THEN 1 ELSE 0]_vars

\* C4 witness: getMetrics found OPEN exactly openStateDuration after the
\* breaker opened at time 0 and reported HALF_OPEN.
HalfOpenAtDurationWitness ==
    /\ last.op = "getMetrics"
    /\ last.from = OPEN
    /\ last.res = HALF_OPEN
    /\ cb.state = HALF_OPEN
    /\ now = OpenStateDuration

\* C5: in HALF_OPEN an execute is admitted iff halfOpenTrials <
\* halfOpenMaxTrials, admission counts the trial and starts the operation;
\* so while no outcome has been recorded in the period, of K arrivals
\* exactly min(K, halfOpenMaxTrials) operations are running.
HalfOpenAdmitsMinKM ==
    /\ [][(Executes /\ cb'.state = HALF_OPEN) =>
            LET trials == IF cb.state = HALF_OPEN THEN cb.halfOpenTrials ELSE 0
            IN /\ last'.res = "admitted" <=> trials < HalfOpenMaxTrials
               /\ last'.res = "admitted" =>
                    /\ cb'.halfOpenTrials = trials + 1
                    /\ Size(inflight') = Size(inflight) + 1
               /\ last'.res = "rejected" => inflight' = inflight]_vars
    /\ [](cb.state = HALF_OPEN /\ cb.halfOpenSuccesses = 0 =>
            Size(RunningProbes(inflight)) = Min(arrivals, HalfOpenMaxTrials))

\* C5 witness: more executes arrived in one HALF_OPEN period than there are
\* trials; the last one was rejected while the admitted ones are running.
HalfOpenBurstWitness ==
    /\ cb.state = HALF_OPEN
    /\ cb.halfOpenSuccesses = 0
    /\ arrivals > HalfOpenMaxTrials
    /\ Size(RunningProbes(inflight)) = HalfOpenMaxTrials
    /\ last.op = "execute"
    /\ last.res = "rejected"

\* C6: a failure recorded in HALF_OPEN (timeout included) opens the breaker
\* in that step with openedAt = now and both half-open counters zero, and
\* every execute made less than openStateDuration after it is rejected.
HalfOpenFailureReopens ==
    /\ [][(RecordsFailure /\ cb.state = HALF_OPEN) =>
            /\ cb'.state = OPEN
            /\ cb'.openedAt = now
            /\ cb'.halfOpenTrials = 0
            /\ cb'.halfOpenSuccesses = 0]_vars
    /\ [][(Executes /\ retripAt # Null /\ now - retripAt < OpenStateDuration)
            => last'.res = "rejected"]_vars

\* C6 witness: an execute is rejected after the clock advanced past the
\* time at which a HALF_OPEN failure re-opened the breaker.
RejectedAfterRetripWitness ==
    /\ last.op = "execute"
    /\ last.res = "rejected"
    /\ retripAt # Null
    /\ now > retripAt
    /\ cb.state = OPEN
    /\ cb.openedAt = retripAt

\* the fields a transition to CLOSED clears
Cleared(b) ==
    /\ b.window = <<>>
    /\ b.consecutiveFailures = 0
    /\ b.halfOpenTrials = 0
    /\ b.halfOpenSuccesses = 0
    /\ b.openedAt = Null

\* C7: at most halfOpenMaxTrials operations are started in one HALF_OPEN
\* period; a success recorded in HALF_OPEN closes the breaker exactly when
\* halfOpenSuccesses reaches halfOpenMaxTrials, a failure recorded in
\* HALF_OPEN opens it, nothing else but reset ends the period, and the
\* transition to CLOSED leaves window, consecutiveFailures, both half-open
\* counters and openedAt cleared.
HalfOpenPeriodOutcome ==
    /\ [](probes <= HalfOpenMaxTrials)
    /\ [][cb.state = HALF_OPEN =>
            /\ RecordsFailure => cb'.state = OPEN
            /\ RecordsSuccess =>
                 IF cb.halfOpenSuccesses + 1 >= HalfOpenMaxTrials
                 THEN cb'.state = CLOSED /\ Cleared(cb')
                 ELSE /\ cb'.state = HALF_OPEN
                      /\ cb'.halfOpenSuccesses = cb.halfOpenSuccesses + 1
            /\ cb'.state # HALF_OPEN =>
                 RecordsFailure \/ RecordsSuccess \/ last'.op = "reset"]_vars

\* C7 witness: the last of halfOpenMaxTrials probes succeeded and closed
\* the breaker, whose window was not empty.
ClosedByProbesWitness ==
    /\ last.res = "success"
    /\ last.from = HALF_OPEN
    /\ last.wlen > 0
    /\ cb.state = CLOSED
    /\ Cleared(cb)
    /\ cb.totalSuccess >= HalfOpenMaxTrials

\* C8: openedAt is present iff the state is OPEN.
OpenedAtIffOpen == (cb.openedAt # Null) <=> (cb.state = OPEN)

\* C8 witness: a time-driven transition left HALF_OPEN without openedAt
\* while operations were in flight.
OpenedAtClearedWitness ==
    /\ last.from = OPEN
    /\ cb.state = HALF_OPEN
    /\ cb.openedAt = Null
    /\ Size(inflight) > 0

\* C9: halfOpenSuccesses <= halfOpenTrials <= halfOpenMaxTrials in every
\* reachable state, also when operations admitted in an earlier state
\* record their outcome later.
HalfOpenCountersOrdered ==
    /\ cb.halfOpenSuccesses <= cb.halfOpenTrials
    /\ cb.halfOpenTrials <= HalfOpenMaxTrials

\* C10: the window never holds more than windowSize entries, and an outcome
\* recorded (the step not closing the breaker) is appended at the end, the
\* oldest entry being dropped when the window was full.
WindowBoundedFifo ==
    /\ [](Len(cb.window) <= WindowSize)
    /\ [][((RecordsFailure \/ RecordsSuccess)
             /\ ~(cb.state = HALF_OPEN /\ cb'.state = CLOSED)) =>
            LET w == cb.window
                v == cb'.window
            IN IF Len(w) = WindowSize
               THEN /\ Len(v) = WindowSize
                    /\ \A i \in 1..(WindowSize - 1) : v[i] = w[i + 1]
                    /\ v[WindowSize] = RecordsSuccess
               ELSE /\ Len(v) = Len(w) + 1
                    /\ \A i \in 1..Len(w) : v[i] = w[i]
                    /\ v[Len(v)] = RecordsSuccess]_vars

\* C10 witness: a success was recorded into a full window, after more
\* failures than the window still holds.
WindowEvictionWitness ==
    /\ last.res = "success"
    /\ last.wlen = WindowSize
    /\ Len(cb.window) = WindowSize
    /\ cb.window[WindowSize] = TRUE
    /\ cb.totalFailure > FailuresIn(cb.window)

\* the outcomes recorded since the last reset
Total(b) == b.totalSuccess + b.totalFailure

\* the handler of this step resumed an execute, which ran to its end
Resumes == last'.op \in {"onSuccess", "onFailure", "onTimeout"}

\* C11: every admitted execute records exactly one outcome: the operation's
\* own result when the operation settles before the timer fires, and a timeout
\* failure when the timer fires first, which is never before requestTimeout
\* has passed since the start.  The settlement of an operation whose timeout
\* was recorded changes no field of the breaker.  The outcomes recorded are
\* always as many as the executes that ran to their end since the last reset.
OneOutcomePerAdmittedCall ==
    /\ [](Total(cb) = completed)
    /\ [][/\ Resumes <=> Size(Running(inflight')) < Size(Running(inflight))
          /\ Resumes =>
                /\ Size(Running(inflight')) = Size(Running(inflight)) - 1
                /\ Total(cb') = Total(cb) + 1
                /\ RecordsSuccess <=> last'.val.kind = "returns"
                /\ RecordsFailure <=> last'.val.kind \in {"throws", "pending"}
                /\ last'.op = "onTimeout" <=> last'.val = Nothing
          /\ last'.op = "onTimeout" =>
                /\ last'.ret = Throws(Timeout)
                /\ \E c \in Calls : /\ c.pc = "running"
                                    /\ now - c.startedAt >= RequestTimeout
                                    /\ CopiesIn(c, inflight') < CopiesIn(c, inflight)
          /\ last'.op = "late" =>
                /\ cb' = cb
                /\ Size(inflight') = Size(inflight) - 1
                /\ Running(inflight') = Running(inflight)
          /\ (~Resumes /\ last'.op # "reset") => Total(cb') = Total(cb)
         ]_vars

\* a late result was discarded after successes and timeouts were recorded
LateResultDiscardedWitness ==
    /\ last.op = "late"
    /\ cb.totalSuccess >= 1
    /\ cb.totalFailure >= 1
    /\ completed = cb.totalSuccess + cb.totalFailure
    /\ \E c \in Calls : c.pc = "late"

\* C12: totalSuccess and totalFailure never decrease except by reset(), which
\* sets both to 0; a step that is not reset() changes them by the outcome it
\* records and by nothing else, whichever transition it makes (CLOSED->OPEN,
\* OPEN->HALF_OPEN, HALF_OPEN->OPEN, HALF_OPEN->CLOSED) or none.
TotalsOnlyGrow ==
    [][IF last'.op = "reset"
       THEN cb'.totalSuccess = 0 /\ cb'.totalFailure = 0
       ELSE /\ cb'.totalSuccess >= cb.totalSuccess
            /\ cb'.totalFailure >= cb.totalFailure
            /\ cb'.totalSuccess =
                 cb.totalSuccess + (IF RecordsSuccess THEN 1 ELSE 0)
            /\ cb'.totalFailure =
                 cb.totalFailure + (IF RecordsFailure THEN 1 ELSE 0)
      ]_vars

\* the totals of a breaker that tripped, half-opened and has just closed
TotalsKeptWitness ==
    /\ last.from = HALF_OPEN
    /\ last.op = "onSuccess"
    /\ cb.state = CLOSED
    /\ cb.window = <<>>
    /\ cb.totalFailure >= ConsecutiveFailureThreshold
    /\ cb.totalSuccess >= HalfOpenMaxTrials
    /\ completed = Total(cb)

\* what reset() leaves: CLOSED, everything cleared, totals at 0
ResetLeavesNew ==
    [][last'.op = "reset" =>
         /\ cb'.state = CLOSED
         /\ Cleared(cb')
         /\ cb'.totalSuccess = 0
         /\ cb'.totalFailure = 0]_vars

\* the last handler recorded the outcome of an operation admitted before the
\* last reset
OldCallRecorded ==
    last.old /\ last.op \in {"onSuccess", "onFailure", "onTimeout"}

\* invariants I1, I2 and I4 of the breaker
OpenedAtAndWindowInvariants ==
    /\ cb.state = OPEN <=> cb.openedAt # Null
    /\ Len(cb.window) <= cb.windowSize

\* C13: reset() in any state, with or without operations in flight, leaves a
\* CLOSED breaker with empty window, all counters and totals at 0 and no
\* openedAt; and the invariants on openedAt, the half-open counters and the
\* window length hold whenever an operation admitted before the reset
\* records its outcome after it.
ResetIsSafe ==
    /\ ResetLeavesNew
    /\ [](OldCallRecorded =>
            /\ OpenedAtAndWindowInvariants
            /\ cb.halfOpenSuccesses <= cb.halfOpenTrials
            /\ cb.halfOpenTrials <= cb.halfOpenMaxTrials)

\* the part of C13 that is not about the half-open counters
ResetIsSafeButCounters ==
    /\ ResetLeavesNew
    /\ [](OldCallRecorded =>
            /\ OpenedAtAndWindowInvariants
            /\ cb.halfOpenTrials <= cb.halfOpenMaxTrials)

\* w with x pushed, and the oldest entry shifted out beyond WindowSize entries
Pushed(w, x) ==
    IF Len(w) < WindowSize
    THEN w \o <<x>>
    ELSE [i \in 1..WindowSize |-> IF i < WindowSize THEN w[i + 1] ELSE x]

\* C14: recording a success adds one to totalSuccess, sets
\* consecutiveFailures to 0, pushes true on the window (which the step that
\* closes a HALF_OPEN breaker then clears) and never moves the breaker to
\* OPEN; execute then returns the value the operation resolved with.  On a
\* failure execute throws the error the operation rejected with, or the
\* timeout error, in the step that records the failure.
SuccessRecordedAndReturned ==
    [][/\ RecordsSuccess =>
            /\ cb'.totalSuccess = cb.totalSuccess + 1
            /\ cb'.totalFailure = cb.totalFailure
            /\ cb'.consecutiveFailures = 0
            /\ cb'.window = IF cb.state = HALF_OPEN /\ cb'.state = CLOSED
                            THEN <<>>
                            ELSE Pushed(cb.window, TRUE)
            /\ cb'.state = OPEN => cb.state = OPEN
            /\ last'.val.kind = "returns"
            /\ last'.val.value \in Values
            /\ last'.ret = last'.val
       /\ RecordsFailure =>
            /\ cb'.totalFailure = cb.totalFailure + 1
            /\ last'.ret.kind = "throws"
            /\ last'.ret = IF last'.val = Nothing
                           THEN Throws(Timeout)
                           ELSE last'.val
            /\ last'.val # Nothing => last'.val.value \in Errors
      ]_vars

\* a success recorded right after a failure on a full window: the run of
\* failures is over, true is the newest entry, and execute returned the value
SuccessAfterFailureWitness ==
    /\ last.op = "onSuccess"
    /\ last.ret = Returns("body2")
    /\ last.wlen = WindowSize
    /\ Len(cb.window) = WindowSize
    /\ cb.window[WindowSize] = TRUE
    /\ cb.window[WindowSize - 1] = FALSE
    /\ cb.consecutiveFailures = 0
    /\ cb.state = CLOSED

\* a number of tenths written with one decimal
OneDecimal(tenths) == ToString(tenths \div 10) \o "." \o ToString(tenths % 10)

\* str is part / whole as a percentage to the nearest tenth
IsPercentage(str, part, whole) ==
    \E tenths \in 0..1000 :
        /\ str = OneDecimal(tenths) \o "%"
        /\ 2 * (1000 * part - tenths * whole) <= whole
        /\ 2 * (tenths * whole - 1000 * part) <= whole

\* C15: getMetrics applies the time-driven OPEN -> HALF_OPEN check and changes
\* nothing else; its snapshot reports the state after that check, the totals
\* as successfulCalls and failedCalls, consecutiveFailures, failureRate as
\* totalFailure / (totalSuccess + totalFailure) in percent with one decimal
\* and "0.0%" when nothing was recorded, and halfOpenTrials as
\* "{halfOpenSuccesses}/{halfOpenMaxTrials}" exactly when the reported state
\* is HALF_OPEN and "N/A" in CLOSED and OPEN.
MetricsSnapshot ==
    [][last'.op = "getMetrics" =>
        LET snap == last'.snap
            due == /\ cb.state = OPEN
                   /\ now - cb.openedAt >= OpenStateDuration
        IN /\ IF due
              THEN cb' = [cb EXCEPT !.state = HALF_OPEN, !.openedAt = Null,
                                    !.halfOpenTrials = 0,
                                    !.halfOpenSuccesses = 0]
              ELSE cb' = cb
           /\ UNCHANGED <<now, inflight>>
           /\ snap.state = cb'.state
           /\ snap.successfulCalls = cb'.totalSuccess
           /\ snap.failedCalls = cb'.totalFailure
           /\ snap.consecutiveFailures = cb'.consecutiveFailures
           /\ IF Total(cb') = 0
              THEN snap.failureRate = "0.0%"
              ELSE IsPercentage(snap.failureRate, cb'.totalFailure, Total(cb'))
           /\ IF snap.state = HALF_OPEN
              THEN snap.halfOpenTrials =
                     ToString(cb'.halfOpenSuccesses) \o "/"
                        \o ToString(HalfOpenMaxTrials)
              ELSE snap.halfOpenTrials = "N/A"
      ]_vars

\* getMetrics found the breaker OPEN with its duration over, after four
\* failures and two successes, and reported HALF_OPEN
MetricsHalfOpenWitness ==
    /\ last.op = "getMetrics"
    /\ last.from = OPEN
    /\ last.snap.state = HALF_OPEN
    /\ last.snap.halfOpenTrials = ToString(0) \o "/" \o ToString(HalfOpenMaxTrials)
    /\ last.snap.failureRate = "66.7%"
    /\ last.snap.failedCalls = 2 * last.snap.successfulCalls

\* Step 2 of the request ended without a content value
NoContent(r) == r.outcome2 \in {"rejected", "failure", "timeout", "type_error"}

\* C16: in a recommendation request the trending upstream is called, once,
\* exactly when Step 2 ended without a content value (the content breaker
\* rejected, the content call failed or timed out, or the step threw before
\* the call), whatever Step 1 did; when Step 2 succeeded it is not called.
TrendingIffNoContent ==
    /\ req.calls.trending = (IF NoContent(req) THEN 1 ELSE 0)
    /\ req.outcome2 = "success" =>
          /\ req.calls.trending = 0
          /\ req.outcome3 = "none"
          /\ req.recommendations # NullValue
    /\ NoContent(req) => req.recommendations = NullValue
    /\ req.outcome3 # "none" => NoContent(req)

\* trending answered a request whose Step 1 succeeded and whose content
\* call timed out
TrendingAfterContentTimeoutWitness ==
    /\ req.pc = "done"
    /\ req.outcome1 = "success"
    /\ req.outcome2 = "timeout"
    /\ req.outcome3 = "success"
    /\ req.calls = [profile |-> 1, content |-> 1, trending |-> 1]
    /\ req.fallbacksTriggered = <<Content>>

\* the response of the request handled last
Response == req.sent[1]

\* what C17 says of every state
OneResponseOfTheRightKind ==
    /\ Len(req.sent) <= 1
    /\ req.pc = "done" <=> Len(req.sent) = 1
    /\ req.pc = "done" =>
          /\ Response.status \in {200, 503}
          /\ Response.status = 503 <=>
                (NoContent(req) /\ req.outcome3 = "failure")
          /\ (NoContent(req) /\ req.outcome3 = "success") =>
                /\ Response.status = 200
                /\ DOMAIN Response.body =
                     {"message", "trending", "fallback_triggered_for"}
          /\ req.outcome2 = "success" =>
                /\ Response.status = 200
                /\ DOMAIN Response.body \in
                     {{"userPreferences", "recommendations"},
                      {"userPreferences", "recommendations",
                       "fallback_triggered_for"}}
          /\ NoContent(req) \/ req.outcome2 = "success"
          /\ NoContent(req) => req.outcome3 \in {"success", "failure"}

\* C17: every recommendation request ends, and with exactly one response:
\* 503 exactly when Step 2 gave no content and trending failed, 200 in the
\* trending shape when Step 2 gave no content and trending succeeded, 200 in
\* the normal shape when Step 2 succeeded; so a failure of user-profile
\* alone is answered 200.
EveryRequestAnswered ==
    /\ []OneResponseOfTheRightKind
    /\ (req.pc \notin {"idle", "done"}) ~> (req.pc = "done")

\* everything failed: user-profile failed, content was rejected by its open
\* breaker, trending failed, and the one response is the 503
AllFailedWitness ==
    /\ req.pc = "done"
    /\ req.outcome1 = "failure"
    /\ req.outcome2 = "rejected"
    /\ req.outcome3 = "failure"
    /\ Len(req.sent) = 1
    /\ Response.status = 503

\* Step 1 of the request fell back to the default preferences
FellBack1(r) == r.outcome1 \in {"rejected", "failure", "timeout"}

\* C18: fallbacksTriggered holds "user-profile-service" exactly when Step 1
\* failed or was rejected and "content-service" exactly when Step 2 failed or
\* was rejected, in this order.  The normal response has
\* fallback_triggered_for only when the list is not empty, and then it is
\* "user-profile-service" next to the default preferences and the userId
\* received; the trending and the 503 responses always have the list joined
\* with ", ".
FallbacksListed ==
    /\ req.fallbacksTriggered =
          (IF FellBack1(req) THEN <<"user-profile-service">> ELSE <<>>)
             \o (IF NoContent(req) THEN <<"content-service">> ELSE <<>>)
    /\ (req.pc = "done" /\ req.outcome2 = "success") =>
          /\ "fallback_triggered_for" \in DOMAIN Response.body
                <=> req.fallbacksTriggered # <<>>
          /\ "fallback_triggered_for" \in DOMAIN Response.body =>
                /\ Response.body.fallback_triggered_for = "user-profile-service"
                /\ Response.body.userPreferences =
                     [userId |-> req.userId,
                      preferences |-> <<"Comedy", "Family">>]
    /\ (req.pc = "done" /\ NoContent(req)) =>
          /\ "fallback_triggered_for" \in DOMAIN Response.body
          /\ Response.body.fallback_triggered_for =
                IF FellBack1(req)
                THEN "user-profile-service, content-service"
                ELSE "content-service"

\* a trending response after both steps fell back, user-profile by rejection
BothListedWitness ==
    /\ req.pc = "done"
    /\ req.outcome1 = "rejected"
    /\ req.outcome2 = "failure"
    /\ Response.status = 200
    /\ Response.body.fallback_triggered_for =
          "user-profile-service, content-service"

\* the step was the execute of breaker name
ExecuteOf(name) == plast'.op = "execute" /\ plast'.breaker = name

\* C19: with the options of app.js, while user-profile fails and content
\* succeeds in every request: the fifth failure opens the user-profile
\* breaker and no earlier one does; it is not CLOSED again, and HALF_OPEN
\* only once openStateDuration (30000) has passed; the content breaker stays
\* CLOSED.  A request that arrives while the breaker is OPEN and younger than
\* openStateDuration starts no user-profile call, asks content for the
\* default preferences, and is answered 200 with fallback_triggered_for
\* "user-profile-service".
FiveFailuresOpenUserProfile ==
    /\ [](breakers[Content].state = CLOSED)
    /\ [](breakers[UserProfile].totalFailure < 5 => breakers[UserProfile].state = CLOSED)
    /\ [](breakers[UserProfile].totalFailure >= 5 => breakers[UserProfile].state # CLOSED)
    /\ [](breakers[UserProfile].state = HALF_OPEN => now >= 30000)
    /\ []((served = 5 /\ req.pc = "done") => breakers[UserProfile].totalFailure = 5)
    /\ [][(breakers[UserProfile].totalFailure = 4 /\ breakers'[UserProfile].totalFailure = 5) =>
            /\ breakers'[UserProfile].state = OPEN
            /\ breakers'[UserProfile].openedAt = now
            /\ served = 5]_pvars
    /\ [][(ExecuteOf(UserProfile) /\ breakers[UserProfile].state = OPEN
               /\ now - breakers[UserProfile].openedAt < 30000) =>
            /\ req'.outcome1 = "rejected"
            /\ req'.calls.profile = 0
            /\ req'.pc = "step2"
            /\ breakers' = breakers]_pvars
    /\ [][(ExecuteOf(Content) /\ req.outcome1 = "rejected") =>
            /\ req'.calls = [profile |-> 0, content |-> 1, trending |-> 0]
            /\ req'.genres = "Comedy,Family"]_pvars
    /\ []((req.pc = "done" /\ req.outcome1 = "rejected") =>
            /\ req.calls = [profile |-> 0, content |-> 1, trending |-> 0]
            /\ Response.status = 200
            /\ Response.body =
                 [userPreferences |->
                      [userId |-> req.userId,
                       preferences |-> <<"Comedy", "Family">>],
                  recommendations |-> req.recommendations,
                  fallback_triggered_for |-> "user-profile-service"])

\* the sixth request, within openStateDuration of the trip, was answered
\* without a user-profile call
SixthRequestWitness ==
    /\ served = 6
    /\ req.pc = "done"
    /\ req.outcome1 = "rejected"
    /\ req.outcome2 = "success"
    /\ now < 30000
    /\ breakers[UserProfile].state = OPEN
    /\ breakers[UserProfile].totalFailure = 5
    /\ breakers[Content].totalSuccess = 6

\* C20: every step of app.js that calls a breaker (admission, recording of
\* an outcome, metrics read, each with its time-driven transition) and every
\* other step leaves each breaker it did not call exactly as it was; the
\* completed admin reset is the one handler after which both instances have
\* been changed, and it leaves both as constructed.
BreakersShareNoState ==
    /\ [][\A n \in BreakerNames :
              plast'.breaker # n => breakers'[n] = breakers[n]]_pvars
    /\ [][(admin = "idle" /\ admin' = "idle") =>
              \E n \in BreakerNames : breakers'[n] = breakers[n]]_pvars
    /\ [](plast = Did("reset", Content) =>
              \A n \in BreakerNames : breakers[n] = NewBreaker(Options))

\* the content breaker has moved to HALF_OPEN by time while the
\* user-profile breaker, opened later, is still OPEN with its own window
TwoBreakersApartWitness ==
    /\ plast.breaker = Content
    /\ breakers[Content].state = HALF_OPEN
    /\ breakers[UserProfile].state = OPEN
    /\ breakers[UserProfile].window # breakers[Content].window
    /\ breakers[UserProfile].openedAt # breakers[Content].openedAt
    /\ breakers[UserProfile].totalSuccess # breakers[Content].totalSuccess

\* the time-driven check ran in this step: execute, getMetrics or get state
ChecksTime == last'.op \in {"execute", "getMetrics", "state"}

\* C21: a step that changes the state is CLOSED -> OPEN or HALF_OPEN -> OPEN
\* recording a failure, HALF_OPEN -> CLOSED recording a success,
\* OPEN -> HALF_OPEN in an execute, getMetrics or state read at least
\* openStateDuration after the breaker opened, or reset(), which leaves CLOSED
\* from every state; so no step goes CLOSED -> HALF_OPEN, and none
\* OPEN -> CLOSED but reset().
OnlyTheFiveTransitions ==
    /\ [][cb'.state # cb.state =>
            \/ /\ cb.state = CLOSED /\ cb'.state = OPEN
               /\ RecordsFailure
            \/ /\ cb.state = OPEN /\ cb'.state = HALF_OPEN
               /\ ChecksTime
               /\ now - cb.openedAt >= OpenStateDuration
            \/ /\ cb.state = HALF_OPEN /\ cb'.state = OPEN
               /\ RecordsFailure
            \/ /\ cb.state = HALF_OPEN /\ cb'.state = CLOSED
               /\ RecordsSuccess
            \/ /\ cb'.state = CLOSED
               /\ last'.op = "reset"]_vars
    /\ [][last'.op = "reset" => cb'.state = CLOSED]_vars
    /\ [][(RecordsFailure \/ RecordsSuccess) => cb'.state # HALF_OPEN
            \/ cb.state = HALF_OPEN]_vars

\* a success was recorded in OPEN, after the breaker had half-opened and
\* re-opened, and left it OPEN
SuccessInOpenStaysOpenWitness ==
    /\ last.op = "onSuccess"
    /\ last.from = OPEN
    /\ cb.state = OPEN
    /\ retripAt = cb.openedAt
    /\ cb.totalSuccess >= 1
    /\ cb.totalFailure > ConsecutiveFailureThreshold

\* C22: while the state is CLOSED, consecutiveFailures is below
\* consecutiveFailureThreshold; the counter is at or above the threshold
\* only in OPEN or HALF_OPEN, which it enters uncleared.
ClosedBelowThreshold ==
    /\ cb.state = CLOSED =>
          cb.consecutiveFailures < cb.consecutiveFailureThreshold
    /\ cb.consecutiveFailures >= cb.consecutiveFailureThreshold =>
          cb.state \in {OPEN, HALF_OPEN}

\* the breaker half-opened with the counter above the threshold: a failure
\* recorded in OPEN had raised it, and HALF_OPEN was entered with it uncleared
AboveThresholdInHalfOpenWitness ==
    /\ cb.state = HALF_OPEN
    /\ cb.consecutiveFailures > cb.consecutiveFailureThreshold
    /\ last.from = OPEN

\* the operation whose success this step records in HALF_OPEN was admitted
\* before the period: it is one of the running operations that are no probes
StaleSuccess ==
    /\ RecordsSuccess
    /\ cb.state = HALF_OPEN
    /\ \E c \in Calls :
          /\ c.pc = "running"
          /\ ~c.probe
          /\ inflight' = IF cb'.state = HALF_OPEN
                         THEN inflight (-) One(c)
                         ELSE ClearProbes(inflight (-) One(c))

\* C23: a step from HALF_OPEN to CLOSED other than reset() is made with
\* halfOpenTrials = halfOpenMaxTrials, all of these trials having succeeded;
\* a success recorded in HALF_OPEN by an operation admitted before the
\* period leaves halfOpenSuccesses and the state as they were.
ClosedOnlyByOwnProbes ==
    /\ [][(cb.state = HALF_OPEN /\ cb'.state = CLOSED /\ last'.op # "reset") =>
            /\ cb.halfOpenTrials = cb.halfOpenMaxTrials
            /\ probes = cb.halfOpenMaxTrials]_vars
    /\ [][StaleSuccess =>
            /\ cb'.state = HALF_OPEN
            /\ cb'.halfOpenSuccesses = cb.halfOpenSuccesses]_vars

\* C24: an outcome recorded while the state is OPEN is counted in
\* totalSuccess or totalFailure, in consecutiveFailures and in the window,
\* and leaves the state OPEN, openedAt and the half-open counters as they
\* were; so the time at which the breaker may half-open stays
\* openedAt + openStateDuration.
OutcomeInOpenKeepsOpenedAt ==
    [][(cb.state = OPEN /\ (RecordsFailure \/ RecordsSuccess)) =>
         /\ cb'.state = OPEN
         /\ cb'.openedAt = cb.openedAt
         /\ cb'.halfOpenTrials = cb.halfOpenTrials
         /\ cb'.halfOpenSuccesses = cb.halfOpenSuccesses
         /\ cb'.window = Pushed(cb.window, RecordsSuccess)
         /\ cb'.totalSuccess =
              cb.totalSuccess + (IF RecordsSuccess THEN 1 ELSE 0)
         /\ cb'.totalFailure =
              cb.totalFailure + (IF RecordsFailure THEN 1 ELSE 0)
         /\ cb'.consecutiveFailures =
              IF RecordsSuccess THEN 0 ELSE cb.consecutiveFailures + 1
         /\ MaybeTransitionFromOpen(cb', now).state =
              MaybeTransitionFromOpen(cb, now).state]_vars

\* a probe failed after another probe of the same period had re-opened the
\* breaker at an earlier time
LateProbeFailureWitness ==
    /\ last.res = "failure"
    /\ last.from = OPEN
    /\ cb.state = OPEN
    /\ retripAt = cb.openedAt
    /\ now > cb.openedAt
    /\ cb.consecutiveFailures > cb.consecutiveFailureThreshold

\* an execute made now is admitted
WouldAdmit == ~Rejects(MaybeTransitionFromOpen(cb, now))

\* the clock of the model reaches the end of the OPEN period
EndsInTime ==
    cb.state = OPEN => cb.openedAt + cb.openStateDuration <= MaxTime

\* C25: where every operation settles or times out, the clock advances and
\* execute or getMetrics keeps being called: a HALF_OPEN breaker with all
\* halfOpenMaxTrials trials allocated leaves HALF_OPEN; an OPEN breaker
\* becomes HALF_OPEN (unless reset() closes it first); and from a state that
\* rejects execute a state that admits one is reached.  The clock of the
\* model stops at MaxTime: the last two are stated for OPEN periods that end
\* by then.
BreakerRecovers ==
    /\ (cb.state = HALF_OPEN /\ cb.halfOpenTrials = cb.halfOpenMaxTrials)
          ~> (cb.state # HALF_OPEN)
    /\ (cb.state = OPEN /\ EndsInTime)
          ~> (cb.state = HALF_OPEN \/ last.op = "reset")
    /\ (~WouldAdmit /\ EndsInTime) ~> (WouldAdmit \/ ~EndsInTime)

\* all trials of a HALF_OPEN period are allocated and running, and an
\* execute has just been rejected
AllTrialsAllocatedWitness ==
    /\ cb.state = HALF_OPEN
    /\ cb.halfOpenTrials = cb.halfOpenMaxTrials
    /\ Size(RunningProbes(inflight)) = cb.halfOpenMaxTrials
    /\ ~WouldAdmit
    /\ last.res = "rejected"
    /\ Size(inflight) > cb.halfOpenMaxTrials

\* "content-service" is in the list of fallbacks of request r
ContentListed(r) ==
    \E i \in DOMAIN r.fallbacksTriggered : r.fallbacksTriggered[i] = Content

\* C26: a recommendation request leaves Step 2's entry only by invoking
\* contentBreaker.execute, and invokes it nowhere else, so exactly once per
\* request whatever Step 1 gave; and "content-service" is in
\* fallbacksTriggered only when that execute was rejected or failed.
ContentExecutedOncePerRequest ==
    /\ [][(req.pc = "step2" /\ req'.pc # "step2") => ExecuteOf(Content)]_pvars
    /\ [][ExecuteOf(Content) => req.pc = "step2"]_pvars
    /\ [](ContentListed(req) =>
            req.outcome2 \in {"rejected", "failure", "timeout"})

\* the same for the requests whose user preferences hold a list
ContentExecutedOnceGivenList ==
    /\ [][(req.pc = "step2" /\ req'.pc # "step2"
              /\ "preferences" \in DOMAIN req.userPreferences)
            => ExecuteOf(Content)]_pvars
    /\ [][ExecuteOf(Content) => req.pc = "step2"]_pvars
    /\ [](ContentListed(req) =>
            req.outcome2 \in {"rejected", "failure", "timeout", "type_error"})
    /\ [](req.outcome2 = "type_error" =>
            /\ req.outcome1 = "success"
            /\ "preferences" \notin DOMAIN req.userPreferences)

====
